---- MODULE Spec2Model ----
(***************************************************************************)
(* Model of ursa-mikail/mem_safe_copy_transfer.                            *)
(*                                                                         *)
(*   - the SecureMemoryManager of the "Method 2" program (NewSecure-       *)
(*     MemoryManager, CopyData, ClearSecure, clearMemorySecure and the     *)
(*     random window placement), specification Spec for any sequence of    *)
(*     calls and SpecOneCopy for one CopyData of every length;             *)
(*   - the window placement function on its own, specification            *)
(*     SpecOffset;                                                         *)
(*   - the lockedBuffer of escape_to_heap_problem/main.go over a small     *)
(*     model of the mapping and pinning calls, specification SpecLB.       *)
(*                                                                         *)
(* Byte slices are functions over 0..len-1, as Go indexes them.  A slice   *)
(* expression that Go rejects at run time (slice bounds out of range) is   *)
(* a transition to pc = "panic".                                           *)
(***************************************************************************)
EXTENDS Integers, Sequences, FiniteSets, TLC

(***************************************************************************)
(* Program constants.                                                      *)
(***************************************************************************)
SlackThreshold == 256   \* len(buffer) < 256: the window is the whole buffer
WindowReserve == 128    \* maxOffset := len(buffer) - 128
Margin == 64            \* offset clamped to [64, maxOffset-64]
ClearPasses == 10       \* for i := 0; i < 10; i++ { rand.Read(...) }
DisplayLen == 16        \* workingMemory[:16] in the Printf calls
ByteRange == 256

(***************************************************************************)
(* Bounds of the model.                                                    *)
(***************************************************************************)
SmallCap == 8           \* a capacity below DisplayLen
ExtraCap == 2           \* the largest capacity is SlackThreshold + ExtraCap
MaxDataLen == 4         \* data lengths 0..MaxDataLen, and those around the window length
MaxOps == 3             \* CopyData / ClearSecure calls on one manager
MaxCopies == 2          \* CopyData calls among them

Capacities == {SmallCap, DisplayLen, SlackThreshold + ExtraCap}
DrawHigh == {0, 255}        \* first byte of the offset draw
DrawLow == {0, 65, 255}     \* second byte of the offset draw
RandSeeds == {0, 1}         \* outcomes of a rand.Read fill (seed 0 draws all zero bytes)
DataSeeds == {1, 2}         \* distinct caller data of one length

Max(a, b) == IF a > b THEN a ELSE b

(***************************************************************************)
(* Inputs: the bytes a rand.Read delivers and the bytes of the caller's    *)
(* data, as functions of a seed.                                           *)
(***************************************************************************)
RandByte(seed, i) == (seed * (7 * i + 13)) % ByteRange
DataByte(seed, i) == ((31 * seed + 5 * i) % (ByteRange - 1)) + 1
Data(seed, n) == [i \in 0..(n - 1) |-> DataByte(seed, i)]
Len0(s) == Cardinality(DOMAIN s)

VARIABLES
    pc,             \* "start", "ready", "panic" (run-time panic), "fatal" (log.Fatal)
    baseBuffer,     \* SecureMemoryManager.baseBuffer
    workingMemory,  \* SecureMemoryManager.workingMemory: a view [offset, length] of baseBuffer
    bufferSize,     \* SecureMemoryManager.bufferSize
    dataLength,     \* SecureMemoryManager.dataLength
    lastOp,         \* the call that produced this state
    lastIn,         \* its argument: the size (NewSecureMemoryManager), the data (CopyData)
    lastErr,        \* what that call reported to its caller
    passLog,        \* the overwrite passes the last call performed, in order
    heldLen,        \* bytes [0, heldLen) of the window held caller data since the last clear
    ops,            \* calls made on the manager
    copies,         \* CopyData calls made on the manager
    offPc,          \* window placement on its own: "idle", "done"
    offIn,          \* its input [len, b0, b1]
    offOut,         \* the window it returned
    lbPc,           \* locked buffers: "run", "fault" (access to an unmapped region)
    bufs,           \* the lockedBuffer objects, by handle
    region,         \* the memory behind each handle: mapped, pinned, bytes
    lbLastOp,       \* the lockedBuffer call that produced this state
    lbLastIn,       \* the handles it was called with
    lbLastErr,      \* what it returned to its caller
    lbEvents,       \* the system calls and overwrites it made, in order
    lbOps,          \* lockedBuffer calls made
    mainPc,         \* main of the lockedBuffer program: the statement it is at
    mPc,            \* main of the two-method program: the statement it is at
    mData,          \* the data both methods are run on
    hiddenBuffers,  \* method1: hiddenBuffers
    memoryAddress,  \* method1: memoryAddress, a view [offset, length] of hiddenBuffers
    m1Log           \* method1: the overwrite passes made so far, in order

mgrVars == <<pc, baseBuffer, workingMemory, bufferSize, dataLength,
             lastOp, lastIn, lastErr, passLog, heldLen, ops, copies>>
offVars == <<offPc, offIn, offOut>>
lbVars == <<lbPc, bufs, region, lbLastOp, lbLastIn, lbLastErr, lbEvents, lbOps>>
mainVars == <<mainPc>>
m1Vars == <<mPc, mData, hiddenBuffers, memoryAddress, m1Log>>
vars == <<mgrVars, offVars, lbVars, mainVars, m1Vars>>

(***************************************************************************)
(* createMemoryAddressingWithRandomOffsetStruct: the window buffer[offset:]*)
(* of a buffer of length L, for the two random bytes b0, b1.               *)
(***************************************************************************)
\* The placement without the upper clamp of the offset.
createMemoryAddressingWithRandomOffsetStruct_NoUpperClamp(L, b0, b1) ==
    IF L < SlackThreshold
    THEN [offset |-> 0, length |-> L]
    ELSE LET maxOffset == L - WindowReserve
             drawn == (b0 * 256 + b1) % maxOffset
             offset == IF drawn < Margin THEN Margin ELSE drawn
         IN  [offset |-> offset, length |-> L - offset]

createMemoryAddressingWithRandomOffsetStruct(L, b0, b1) ==
    IF L < SlackThreshold
    THEN [offset |-> 0, length |-> L]
    ELSE LET maxOffset == L - WindowReserve
             drawn == (b0 * 256 + b1) % maxOffset
             low == IF drawn < Margin THEN Margin ELSE drawn
             offset == IF low > maxOffset - Margin THEN maxOffset - Margin ELSE low
         IN  [offset |-> offset, length |-> L - offset]

(***************************************************************************)
(* Slices.  Slice(mem, n) is mem[:n]; Overlay(mem, part) is mem after the  *)
(* elements of the sub-slice part, which aliases its start, were written.  *)
(***************************************************************************)
Slice(mem, n) == [i \in 0..(n - 1) |-> mem[i]]

\* Overlay with the copy stopping one element early.
Overlay_DropLast(mem, part) ==
    [i \in DOMAIN mem |->
        IF i \in DOMAIN part /\ (i + 1) \in DOMAIN part THEN part[i] ELSE mem[i]]

Overlay(mem, part) ==
    [i \in DOMAIN mem |-> IF i \in DOMAIN part THEN part[i] ELSE mem[i]]

(***************************************************************************)
(* rand.Read(slice): every byte of the slice is replaced by a drawn byte.  *)
(***************************************************************************)
RandRead(slice, seed) == [i \in DOMAIN slice |-> RandByte(seed, i)]

ZeroLoop(mem, length) == [i \in DOMAIN mem |-> IF i < length THEN 0 ELSE mem[i]]

PassRecord(kind, n) == [kind |-> kind, n |-> n]

(***************************************************************************)
(* The loop of k rand.Read(mem[:length]) calls, on the sub-slice: its      *)
(* bytes afterwards and the passes made, in order.  A failed read is       *)
(* ignored by the code and leaves the bytes to the passes after it.        *)
(***************************************************************************)
RECURSIVE RandPasses(_, _, _)
RandPasses(st, seed, k) ==
    IF k = 0 THEN st
    ELSE RandPasses([slice |-> RandRead(st.slice, seed + k),
                     log |-> Append(st.log, PassRecord("random", Len0(st.slice)))],
                    seed, k - 1)

\* clearMemorySecure without the final zero loop.
clearMemorySecure_NoZero(mem, length, seed) ==
    LET random == RandPasses([slice |-> Slice(mem, length), log |-> <<>>],
                             seed, ClearPasses)
    IN  [mem |-> Overlay(mem, random.slice), log |-> random.log]

\* clearMemorySecure overwriting all of mem instead of mem[:length].
clearMemorySecure_WholeSlice(mem, length, seed) ==
    LET random == RandPasses([slice |-> mem, log |-> <<>>], seed, ClearPasses)
    IN  [mem |-> ZeroLoop(random.slice, Len0(mem)),
         log |-> Append(random.log, PassRecord("zero", Len0(mem)))]

(***************************************************************************)
(* clearMemorySecure(mem, length): ten rand.Read(mem[:length]), then the   *)
(* loop mem[i] = 0 for i < length.  The result is mem afterwards and the   *)
(* passes made over it, in order.                                          *)
(***************************************************************************)
clearMemorySecure(mem, length, seed) ==
    LET random == RandPasses([slice |-> Slice(mem, length), log |-> <<>>],
                             seed, ClearPasses)
    IN  [mem |-> ZeroLoop(Overlay(mem, random.slice), length),
         log |-> Append(random.log, PassRecord("zero", length))]

(***************************************************************************)
(* workingMemory aliases baseBuffer[offset:].  Window is its contents;     *)
(* WriteWindow(mem) is baseBuffer after the window's bytes became mem.     *)
(***************************************************************************)
Window == [i \in 0..(workingMemory.length - 1) |-> baseBuffer[workingMemory.offset + i]]

WriteWindow(buf, w, mem) ==
    [i \in DOMAIN buf |->
        IF w.offset <= i /\ i < w.offset + w.length THEN mem[i - w.offset] ELSE buf[i]]

(***************************************************************************)
(* The working memory as the caller reads it: workingMemory[i].            *)
(***************************************************************************)
WM(i) == baseBuffer[workingMemory.offset + i]

NoBuffer == [i \in {} |-> 0]
NoWindow == [offset |-> 0, length |-> 0]

MgrInit ==
    /\ pc = "start"
    /\ baseBuffer = NoBuffer
    /\ workingMemory = NoWindow
    /\ bufferSize = 0
    /\ dataLength = 0
    /\ lastOp = "none"
    /\ lastIn = <<>>
    /\ lastErr = "none"
    /\ passLog = <<>>
    /\ heldLen = 0
    /\ ops = 0
    /\ copies = 0

\* NewSecureMemoryManager filling the entire buffer with random bytes, as
\* method1 does, before the window is placed.
NewSecureMemoryManager_FillAll(size, b0, b1, seed, randOk) ==
    /\ pc = "start"
    /\ LET made == [i \in 0..(size - 1) |-> 0]
           window == createMemoryAddressingWithRandomOffsetStruct(size, b0, b1)
       IN  IF ~randOk
           THEN /\ pc' = "fatal"
                /\ UNCHANGED <<baseBuffer, workingMemory, bufferSize>>
           ELSE IF window.length < DisplayLen
           THEN /\ pc' = "panic"
                /\ UNCHANGED <<baseBuffer, workingMemory, bufferSize>>
           ELSE /\ pc' = "ready"
                /\ baseBuffer' = RandRead(made, seed)
                /\ workingMemory' = window
                /\ bufferSize' = size
    /\ dataLength' = 0
    /\ lastOp' = "NewSecureMemoryManager"
    /\ lastIn' = size
    /\ lastErr' = "none"
    /\ passLog' = <<>>
    /\ heldLen' = 0
    /\ UNCHANGED <<ops, copies, offVars, lbVars, mainVars>>

(***************************************************************************)
(* NewSecureMemoryManager(size): make, place the window, seed the window   *)
(* only (log.Fatal when the random source fails), print                    *)
(* workingMemory[:16], which panics on a window shorter than 16 bytes,     *)
(* and return the manager.                                                 *)
(***************************************************************************)
NewSecureMemoryManager(size, b0, b1, seed, randOk) ==
    /\ pc = "start"
    /\ LET made == [i \in 0..(size - 1) |-> 0]
           window == createMemoryAddressingWithRandomOffsetStruct(size, b0, b1)
           view == [i \in 0..(window.length - 1) |-> made[window.offset + i]]
           seeded == WriteWindow(made, window, RandRead(view, seed))
       IN  IF ~randOk
           THEN /\ pc' = "fatal"
                /\ UNCHANGED <<baseBuffer, workingMemory, bufferSize>>
           ELSE IF window.length < DisplayLen
           THEN /\ pc' = "panic"
                /\ UNCHANGED <<baseBuffer, workingMemory, bufferSize>>
           ELSE /\ pc' = "ready"
                /\ baseBuffer' = seeded
                /\ workingMemory' = window
                /\ bufferSize' = size
    /\ dataLength' = 0
    /\ lastOp' = "NewSecureMemoryManager"
    /\ lastIn' = size
    /\ lastErr' = "none"
    /\ passLog' = <<>>
    /\ heldLen' = 0
    /\ UNCHANGED <<ops, copies, offVars, lbVars, mainVars>>

\* CopyData that does not record the length of the data.
CopyData_NoLength(data) ==
    /\ pc = "ready"
    /\ ops < MaxOps
    /\ LET n == Len0(data)
       IN  IF n > workingMemory.length
           THEN /\ pc' = "panic"
                /\ UNCHANGED <<baseBuffer, dataLength, heldLen>>
           ELSE /\ pc' = pc
                /\ baseBuffer' = WriteWindow(baseBuffer, workingMemory,
                                              Overlay(Window, data))
                /\ dataLength' = dataLength
                /\ heldLen' = IF lastOp = "CopyData" THEN Max(heldLen, n) ELSE n
    /\ lastOp' = "CopyData"
    /\ lastIn' = data
    /\ lastErr' = "none"
    /\ passLog' = <<>>
    /\ ops' = ops + 1
    /\ copies' = copies + 1
    /\ UNCHANGED <<workingMemory, bufferSize, offVars, lbVars, mainVars>>

(***************************************************************************)
(* CopyData(data): copy(sm.workingMemory[:len(data)], data), then          *)
(* dataLength = len(data).  The slice expression panics when len(data)     *)
(* exceeds the capacity of workingMemory, which is its length.  The        *)
(* method returns nothing.                                                 *)
(***************************************************************************)
CopyData(data) ==
    /\ pc = "ready"
    /\ ops < MaxOps
    /\ LET n == Len0(data)
       IN  IF n > workingMemory.length
           THEN /\ pc' = "panic"
                /\ UNCHANGED <<baseBuffer, dataLength, heldLen>>
           ELSE /\ pc' = pc
                /\ baseBuffer' = WriteWindow(baseBuffer, workingMemory,
                                              Overlay(Window, data))
                /\ dataLength' = n
                /\ heldLen' = IF lastOp = "CopyData" THEN Max(heldLen, n) ELSE n
    /\ lastOp' = "CopyData"
    /\ lastIn' = data
    /\ lastErr' = "none"
    /\ passLog' = <<>>
    /\ ops' = ops + 1
    /\ copies' = copies + 1
    /\ UNCHANGED <<workingMemory, bufferSize, offVars, lbVars, mainVars>>

\* ClearSecure without the dataLength > 0 guard.
ClearSecure_NoGuard(seed) ==
    /\ pc = "ready"
    /\ ops < MaxOps
    /\ LET cleared == clearMemorySecure(Window, dataLength, seed)
       IN  /\ baseBuffer' = WriteWindow(baseBuffer, workingMemory, cleared.mem)
           /\ passLog' = cleared.log
           /\ dataLength' = 0
    /\ pc' = IF workingMemory.length < DisplayLen THEN "panic" ELSE pc
    /\ lastOp' = "ClearSecure"
    /\ lastErr' = "none"
    /\ ops' = ops + 1
    /\ UNCHANGED <<workingMemory, bufferSize, lastIn, heldLen, copies,
                   offVars, lbVars, mainVars>>

(***************************************************************************)
(* ClearSecure(): clearMemorySecure(workingMemory, dataLength) and         *)
(* dataLength = 0 when dataLength > 0, then print workingMemory[:16].      *)
(***************************************************************************)
ClearSecure(seed) ==
    /\ pc = "ready"
    /\ ops < MaxOps
    /\ LET cleared == clearMemorySecure(Window, dataLength, seed)
       IN  IF dataLength > 0
           THEN /\ baseBuffer' = WriteWindow(baseBuffer, workingMemory, cleared.mem)
                /\ passLog' = cleared.log
                /\ dataLength' = 0
           ELSE /\ passLog' = <<>>
                /\ UNCHANGED <<baseBuffer, dataLength>>
    /\ pc' = IF workingMemory.length < DisplayLen THEN "panic" ELSE pc
    /\ lastOp' = "ClearSecure"
    /\ lastErr' = "none"
    /\ ops' = ops + 1
    /\ UNCHANGED <<workingMemory, bufferSize, lastIn, heldLen, copies,
                   offVars, lbVars, mainVars>>

(***************************************************************************)
(* The data lengths tried on a window: the short ones and those around     *)
(* the window's length (SampleLens), or every length up to one more than   *)
(* the window holds (AllLens).                                             *)
(***************************************************************************)
AllLens == 0..(workingMemory.length + 1)
SampleLens == {n \in AllLens : n <= MaxDataLen \/ n >= workingMemory.length - 1}

Construct ==
    /\ UNCHANGED m1Vars
    /\ \E size \in Capacities, b0 \in DrawHigh, b1 \in DrawLow,
          seed \in RandSeeds, randOk \in BOOLEAN :
           NewSecureMemoryManager(size, b0, b1, seed, randOk)

Clear ==
    /\ UNCHANGED m1Vars
    /\ \E seed \in RandSeeds : ClearSecure(seed)

(***************************************************************************)
(* Spec: any sequence of CopyData and ClearSecure calls on a manager.      *)
(***************************************************************************)
CopySampled ==
    /\ copies < MaxCopies
    /\ UNCHANGED m1Vars
    /\ \E n \in SampleLens, seed \in DataSeeds : CopyData(Data(seed, n))

Next == Construct \/ CopySampled \/ Clear

(***************************************************************************)
(* SpecOneCopy: the flow of method2 (construct, one CopyData, ClearSecure, *)
(* possibly repeated), for data of every length.                           *)
(***************************************************************************)
CopyOnce ==
    /\ copies < 1
    /\ UNCHANGED m1Vars
    /\ \E n \in AllLens, seed \in DataSeeds : CopyData(Data(seed, n))

NextOneCopy == Construct \/ CopyOnce \/ Clear

(***************************************************************************)
(* SpecOffset: createMemoryAddressingWithRandomOffsetStruct applied to a   *)
(* buffer of each length of OffsetCaps.  The draws b0*256 + b1 with b0 in  *)
(* 0..MaxHigh cover 0..2047, hence every residue modulo every maxOffset    *)
(* of OffsetCaps; b0 = 255 adds the largest draws.                         *)
(***************************************************************************)
Method2Capacity == 2048
MaxHigh == 7            \* first random byte 0..MaxHigh, and 255
OffsetCaps == {0, DisplayLen, SlackThreshold - 1, SlackThreshold,
               SlackThreshold + ExtraCap, Method2Capacity}
OffsetHigh == 0..MaxHigh \cup {ByteRange - 1}

OffIdle ==
    /\ offPc = "idle"
    /\ offIn = <<>>
    /\ offOut = NoWindow

(***************************************************************************)
(* The call in two steps: the caller's buffer and the first random byte    *)
(* are fixed (OffsetCall), then the second byte is drawn and the window    *)
(* computed (DeriveWindow).                                                *)
(***************************************************************************)
OffsetCall(L, b0) ==
    /\ offPc = "idle"
    /\ offPc' = "called"
    /\ offIn' = [len |-> L, b0 |-> b0]
    /\ UNCHANGED <<offOut, mgrVars, lbVars, mainVars, m1Vars>>

DeriveWindow(b1) ==
    /\ offPc = "called"
    /\ offPc' = "done"
    /\ offIn' = [len |-> offIn.len, b0 |-> offIn.b0, b1 |-> b1]
    /\ offOut' = createMemoryAddressingWithRandomOffsetStruct(offIn.len, offIn.b0, b1)
    /\ UNCHANGED <<mgrVars, lbVars, mainVars, m1Vars>>

NextOffset ==
    \/ \E L \in OffsetCaps, b0 \in OffsetHigh : OffsetCall(L, b0)
    \/ \E b1 \in 0..(ByteRange - 1) : DeriveWindow(b1)

(***************************************************************************)
(* SpecLB: the lockedBuffer of escape_to_heap_problem/main.go.  A handle   *)
(* of Bufs is a *lockedBuffer variable, nil until newLockedBuffer returns  *)
(* a buffer for it; region[b] is the memory its addr points to.  Reading   *)
(* or writing through addr after the region was unmapped either ends the  *)
(* process (lbPc = "fault") or, when the runtime or a later Mmap placed    *)
(* other memory at that address, hits that memory (lbPc = "stray"); the    *)
(* model follows the program no further in either case.                    *)
(***************************************************************************)
MaxLBSize == 2          \* sizes asked of newLockedBuffer: -1..MaxLBSize
MaxLBOps == 4           \* lockedBuffer calls in one run

Bufs == {1, 2}
LBSizes == (-1)..MaxLBSize
Fills == 0..MaxLBSize       \* bytes a rand.Read delivered before it failed
AfterUnmap == {"fault", "stray"}
NilBuf == [alloc |-> FALSE, size |-> 0, locked |-> FALSE]
NoRegion == [mapped |-> FALSE, pinned |-> FALSE, bytes |-> NoBuffer]
Zeros(n) == [i \in 0..(n - 1) |-> 0]
Dirty(bytes) == \E i \in DOMAIN bytes : bytes[i] # 0
Event(call, b) == [call |-> call, buf |-> b, dirty |-> Dirty(region[b].bytes)]

LBIdle ==
    /\ lbPc = "run"
    /\ bufs = [b \in Bufs |-> NilBuf]
    /\ region = [b \in Bufs |-> NoRegion]
    /\ lbLastOp = "none"
    /\ lbLastIn = <<>>
    /\ lbLastErr = "none"
    /\ lbEvents = <<>>
    /\ lbOps = 0

LBCall(op, in) ==
    /\ lbPc = "run"
    /\ lbOps' = lbOps + 1
    /\ lbLastOp' = op
    /\ lbLastIn' = in
    /\ UNCHANGED <<mgrVars, offVars, m1Vars>>

\* newLockedBuffer returning nil on a failed Mlock without the Munmap.
newLockedBuffer_Leak(b, size, mmapOk, mlockOk) ==
    /\ LBCall("newLockedBuffer", <<b, size, mmapOk, mlockOk>>)
    /\ ~bufs[b].alloc
    /\ lbPc' = lbPc
    /\ IF size <= 0 \/ ~mmapOk
       THEN /\ lbEvents' = <<[call |-> "Mmap", buf |-> b, dirty |-> FALSE]>>
            /\ lbLastErr' = "nil"
            /\ UNCHANGED <<bufs, region>>
       ELSE /\ lbEvents' = <<[call |-> "Mmap", buf |-> b, dirty |-> FALSE],
                             [call |-> "Mlock", buf |-> b, dirty |-> FALSE]>>
            /\ lbLastErr' = IF mlockOk THEN "none" ELSE "nil"
            /\ bufs' = IF mlockOk
                       THEN [bufs EXCEPT ![b] = [alloc |-> TRUE, size |-> size, locked |-> TRUE]]
                       ELSE bufs
            /\ region' = [region EXCEPT ![b] =
                             [mapped |-> TRUE, pinned |-> mlockOk, bytes |-> Zeros(size)]]

(***************************************************************************)
(* newLockedBuffer(size): Mmap (EINVAL for size <= 0), Mlock, and on a     *)
(* failed Mlock Munmap; nil on either failure.                             *)
(***************************************************************************)
newLockedBuffer(b, size, mmapOk, mlockOk) ==
    /\ LBCall("newLockedBuffer", <<b, size, mmapOk, mlockOk>>)
    /\ ~bufs[b].alloc
    /\ lbPc' = lbPc
    /\ IF size <= 0 \/ ~mmapOk
       THEN /\ lbEvents' = <<[call |-> "Mmap", buf |-> b, dirty |-> FALSE]>>
            /\ lbLastErr' = "nil"
            /\ UNCHANGED <<bufs, region>>
       ELSE IF ~mlockOk
       THEN /\ lbEvents' = <<[call |-> "Mmap", buf |-> b, dirty |-> FALSE],
                             [call |-> "Mlock", buf |-> b, dirty |-> FALSE],
                             [call |-> "Munmap", buf |-> b, dirty |-> FALSE]>>
            /\ lbLastErr' = "nil"
            /\ UNCHANGED <<bufs, region>>
       ELSE /\ lbEvents' = <<[call |-> "Mmap", buf |-> b, dirty |-> FALSE],
                             [call |-> "Mlock", buf |-> b, dirty |-> FALSE]>>
            /\ lbLastErr' = "none"
            /\ bufs' = [bufs EXCEPT ![b] = [alloc |-> TRUE, size |-> size, locked |-> TRUE]]
            /\ region' = [region EXCEPT ![b] =
                             [mapped |-> TRUE, pinned |-> TRUE, bytes |-> Zeros(size)]]

(***************************************************************************)
(* writeRandom(): rand.Read over the whole region; the error of the        *)
(* random source, which had filled the first `filled` bytes, is returned.  *)
(***************************************************************************)
writeRandom(b, seed, filled) ==
    /\ LBCall("writeRandom", <<b>>)
    /\ bufs[b].alloc
    /\ filled <= bufs[b].size
    /\ IF ~region[b].mapped
       THEN /\ lbPc' \in AfterUnmap
            /\ lbLastErr' = "none"
            /\ lbEvents' = <<>>
            /\ UNCHANGED <<bufs, region>>
       ELSE /\ lbPc' = lbPc
            /\ lbLastErr' = IF filled = bufs[b].size THEN "none" ELSE "RandomSourceError"
            /\ lbEvents' = <<Event("random", b)>>
            /\ region' = [region EXCEPT ![b].bytes =
                             Overlay(@, RandRead(Slice(@, filled), seed))]
            /\ UNCHANGED bufs

\* copyTo without the size check: copy() moves the shorter length.
copyTo_Truncating(src, dest) ==
    /\ LBCall("copyTo", <<src, dest>>)
    /\ bufs[src].alloc /\ bufs[dest].alloc
    /\ lbLastErr' = "none"
    /\ IF ~region[src].mapped \/ ~region[dest].mapped
       THEN /\ lbPc' \in AfterUnmap
            /\ lbEvents' = <<>>
            /\ UNCHANGED <<bufs, region>>
       ELSE /\ lbPc' = lbPc
            /\ lbEvents' = <<Event("copy", dest)>>
            /\ region' = [region EXCEPT ![dest].bytes =
                             [i \in DOMAIN @ |-> IF i \in DOMAIN region[src].bytes
                                                 THEN region[src].bytes[i] ELSE @[i]]]
            /\ UNCHANGED bufs

(***************************************************************************)
(* copyTo(dest): return when the sizes differ, else copy(dest, src).  The  *)
(* method has no result.                                                   *)
(***************************************************************************)
copyTo(src, dest) ==
    /\ LBCall("copyTo", <<src, dest>>)
    /\ bufs[src].alloc /\ bufs[dest].alloc
    /\ lbLastErr' = "none"
    /\ IF bufs[src].size # bufs[dest].size
       THEN /\ lbPc' = lbPc
            /\ lbEvents' = <<>>
            /\ UNCHANGED <<bufs, region>>
       ELSE IF ~region[src].mapped \/ ~region[dest].mapped
       THEN /\ lbPc' \in AfterUnmap
            /\ lbEvents' = <<>>
            /\ UNCHANGED <<bufs, region>>
       ELSE /\ lbPc' = lbPc
            /\ lbEvents' = <<Event("copy", dest)>>
            /\ region' = [region EXCEPT ![dest].bytes = Overlay(@, region[src].bytes)]
            /\ UNCHANGED bufs

(***************************************************************************)
(* display(label): reads and prints every byte; nothing is modified.       *)
(***************************************************************************)
display(b) ==
    /\ LBCall("display", <<b>>)
    /\ bufs[b].alloc
    /\ IF region[b].mapped THEN lbPc' = lbPc ELSE lbPc' \in AfterUnmap
    /\ lbLastErr' = "none"
    /\ lbEvents' = <<>>
    /\ UNCHANGED <<bufs, region>>

(***************************************************************************)
(* clear(): slice[i] = 0 for every byte of the region.                     *)
(***************************************************************************)
ZeroAll(bytes) == [i \in DOMAIN bytes |-> 0]

clear(b) ==
    /\ LBCall("clear", <<b>>)
    /\ bufs[b].alloc
    /\ lbLastErr' = "none"
    /\ IF ~region[b].mapped
       THEN /\ lbPc' \in AfterUnmap
            /\ lbEvents' = <<>>
            /\ UNCHANGED <<bufs, region>>
       ELSE /\ lbPc' = lbPc
            /\ lbEvents' = <<Event("zero", b)>>
            /\ region' = [region EXCEPT ![b].bytes = ZeroAll(@)]
            /\ UNCHANGED bufs

(***************************************************************************)
(* close(): Munlock when b.locked, then clear(), then Munmap.  No field    *)
(* of the buffer is changed, and the results of Munlock and Munmap are     *)
(* dropped.  On a region already unmapped Munlock fails and clear()        *)
(* writes to unmapped memory.                                              *)
(***************************************************************************)
close(b) ==
    /\ LBCall("close", <<b>>)
    /\ bufs[b].alloc
    /\ lbLastErr' = "none"
    /\ LET r0 == region[b]
           r1 == IF bufs[b].locked THEN [r0 EXCEPT !.pinned = FALSE] ELSE r0
           r2 == [r1 EXCEPT !.bytes = ZeroAll(@)]
           unlock == IF bufs[b].locked
                     THEN <<[call |-> "Munlock", buf |-> b, dirty |-> Dirty(r0.bytes)]>>
                     ELSE <<>>
       IN  IF ~r0.mapped
           THEN /\ lbPc' \in AfterUnmap
                /\ lbEvents' = unlock
                /\ UNCHANGED <<bufs, region>>
           ELSE /\ lbPc' = lbPc
                /\ lbEvents' = unlock \o
                       <<[call |-> "zero", buf |-> b, dirty |-> Dirty(r1.bytes)],
                         [call |-> "Munmap", buf |-> b, dirty |-> Dirty(r2.bytes)]>>
                /\ region' = [region EXCEPT ![b] = NoRegion]
                /\ UNCHANGED bufs

(***************************************************************************)
(* SpecLB: any MaxLBOps calls on the two handles.                          *)
(***************************************************************************)
Harness == lbOps < MaxLBOps /\ UNCHANGED mainVars

NextLB ==
    \/ Harness /\ \E b \in Bufs, size \in LBSizes, mmapOk \in BOOLEAN, mlockOk \in BOOLEAN :
                      newLockedBuffer(b, size, mmapOk, mlockOk)
    \/ Harness /\ \E b \in Bufs, seed \in RandSeeds, filled \in Fills :
                      writeRandom(b, seed, filled)
    \/ Harness /\ \E src \in Bufs, dest \in Bufs : copyTo(src, dest)
    \/ Harness /\ \E b \in Bufs : display(b)
    \/ Harness /\ \E b \in Bufs : clear(b)
    \/ Harness /\ \E b \in Bufs : close(b)

(***************************************************************************)
(* SpecMain: main of escape_to_heap_problem/main.go, statement by          *)
(* statement, on the handles 1 (buf1) and 2 (buf2).  log.Fatal ends the    *)
(* process through os.Exit(1), so the deferred close calls do not run      *)
(* (mainPc = "fatal"); on the return of main they run in reverse order of  *)
(* their defer statements (mainPc = "exit" after both).                    *)
(***************************************************************************)
MainSize == 16
MainFills == {0, 1, MainSize - 1, MainSize}

AfterDisplay ==
    [show1 |-> "show2", show2 |-> "copy", show3 |-> "show4",
     show4 |-> "fill1", show5 |-> "show6", show6 |-> "close2"]
Displayed ==
    [show1 |-> 1, show2 |-> 2, show3 |-> 1, show4 |-> 2, show5 |-> 1, show6 |-> 2]

MainAlloc1 ==
    /\ mainPc = "alloc1"
    /\ \E mmapOk \in BOOLEAN, mlockOk \in BOOLEAN :
          newLockedBuffer(1, MainSize, mmapOk, mlockOk)
    /\ mainPc' = IF lbLastErr' = "nil" THEN "fatal" ELSE "alloc2"

MainAlloc2 ==
    /\ mainPc = "alloc2"
    /\ \E mmapOk \in BOOLEAN, mlockOk \in BOOLEAN :
          newLockedBuffer(2, MainSize, mmapOk, mlockOk)
    /\ mainPc' = IF lbLastErr' = "nil" THEN "fatal" ELSE "write1"

MainFirstFill ==
    /\ mainPc = "write1"
    /\ \E seed \in RandSeeds, filled \in MainFills : writeRandom(1, seed, filled)
    /\ mainPc' = IF lbLastErr' # "none" THEN "fatal" ELSE "show1"

MainDisplay ==
    /\ mainPc \in DOMAIN AfterDisplay
    /\ display(Displayed[mainPc])
    /\ mainPc' = AfterDisplay[mainPc]

MainCopy ==
    /\ mainPc = "copy"
    /\ copyTo(1, 2)
    /\ mainPc' = "show3"

MainRefill1 ==
    /\ mainPc = "fill1"
    /\ \E seed \in RandSeeds, filled \in MainFills : writeRandom(1, seed, filled)
    /\ mainPc' = "fill2"

MainRefill2 ==
    /\ mainPc = "fill2"
    /\ \E seed \in RandSeeds, filled \in MainFills : writeRandom(2, seed, filled)
    /\ mainPc' = "show5"

MainDeferredClose2 ==
    /\ mainPc = "close2"
    /\ close(2)
    /\ mainPc' = "close1"

MainDeferredClose1 ==
    /\ mainPc = "close1"
    /\ close(1)
    /\ mainPc' = "exit"

NextMain ==
    \/ MainAlloc1
    \/ MainAlloc2
    \/ MainFirstFill
    \/ MainDisplay
    \/ MainCopy
    \/ MainRefill1
    \/ MainRefill2
    \/ MainDeferredClose2
    \/ MainDeferredClose1

(***************************************************************************)
(* SpecMethods: main of part_000, method1() and then method2(), statement  *)
(* by statement.  The two methods copy string literals; here both copy     *)
(* the same data, of the literals' lengths or a single byte.               *)
(***************************************************************************)
Method1Size == 1024
OffsetReserve == 100
MethodLens == {1, 28, 36}

\* createMemoryAddressingWithRandomOffset: buffer[offset:] for the one
\* random byte b.
createMemoryAddressingWithRandomOffset(L, b) ==
    LET maxOffset == L - OffsetReserve
        offset == IF maxOffset > 0 THEN b % maxOffset ELSE 0
    IN  [offset |-> offset, length |-> L - offset]

\* memoryAddress aliases hiddenBuffers[offset:].
M1Window ==
    [i \in 0..(memoryAddress.length - 1) |-> hiddenBuffers[memoryAddress.offset + i]]

M1Fill(seed, randOk) ==
    /\ mPc = "start"
    /\ IF randOk
       THEN /\ mPc' = "filled"
            /\ hiddenBuffers' = RandRead([i \in 0..(Method1Size - 1) |-> 0], seed)
       ELSE /\ mPc' = "fatal"
            /\ hiddenBuffers' = [i \in 0..(Method1Size - 1) |-> 0]
    /\ UNCHANGED <<mData, memoryAddress, m1Log, mgrVars, offVars, lbVars, mainVars>>

M1Address(b) ==
    /\ mPc = "filled"
    /\ mPc' = "addressed"
    /\ memoryAddress' = createMemoryAddressingWithRandomOffset(Len0(hiddenBuffers), b)
    /\ UNCHANGED <<mData, hiddenBuffers, m1Log, mgrVars, offVars, lbVars, mainVars>>

M1Copy(data) ==
    /\ mPc = "addressed"
    /\ mPc' = "copied"
    /\ mData' = data
    /\ hiddenBuffers' = WriteWindow(hiddenBuffers, memoryAddress, Overlay(M1Window, data))
    /\ UNCHANGED <<memoryAddress, m1Log, mgrVars, offVars, lbVars, mainVars>>

M1ClearBuffer(seed) ==
    /\ mPc = "copied"
    /\ mPc' = "cleared"
    /\ LET cleared == clearMemorySecure(hiddenBuffers, Len0(hiddenBuffers), seed)
       IN  /\ hiddenBuffers' = cleared.mem
           /\ m1Log' = cleared.log
    /\ UNCHANGED <<mData, memoryAddress, mgrVars, offVars, lbVars, mainVars>>

M1ClearWindow(seed) ==
    /\ mPc = "cleared"
    /\ mPc' = "method2"
    /\ LET cleared == clearMemorySecure(M1Window, Len0(mData), seed)
       IN  /\ hiddenBuffers' = WriteWindow(hiddenBuffers, memoryAddress, cleared.mem)
           /\ m1Log' = m1Log \o cleared.log
    /\ UNCHANGED <<mData, memoryAddress, mgrVars, offVars, lbVars, mainVars>>

M2New ==
    /\ mPc = "method2"
    /\ \E b0 \in DrawHigh, b1 \in DrawLow, seed \in RandSeeds, randOk \in BOOLEAN :
          NewSecureMemoryManager(Method2Capacity, b0, b1, seed, randOk)
    /\ mPc' = IF pc' = "ready" THEN "made" ELSE "fatal"
    /\ UNCHANGED <<mData, hiddenBuffers, memoryAddress, m1Log>>

M2Copy ==
    /\ mPc = "made"
    /\ CopyData(mData)
    /\ mPc' = "held"
    /\ UNCHANGED <<mData, hiddenBuffers, memoryAddress, m1Log>>

M2Clear ==
    /\ mPc = "held"
    /\ \E seed \in RandSeeds : ClearSecure(seed)
    /\ mPc' = "done"
    /\ UNCHANGED <<mData, hiddenBuffers, memoryAddress, m1Log>>

NextMethods ==
    \/ \E seed \in RandSeeds, randOk \in BOOLEAN : M1Fill(seed, randOk)
    \/ \E b \in DrawLow : M1Address(b)
    \/ \E seed \in DataSeeds, n \in MethodLens : M1Copy(Data(seed, n))
    \/ \E seed \in RandSeeds : M1ClearBuffer(seed)
    \/ \E seed \in RandSeeds : M1ClearWindow(seed)
    \/ M2New
    \/ M2Copy
    \/ M2Clear

\* The clearing operations a pass log shows: each clearMemorySecure ends
\* with one zero pass.
ClearingOps(log) == Cardinality({k \in DOMAIN log : log[k].kind = "zero"})

(***************************************************************************)
(* The specifications.                                                     *)
(***************************************************************************)
MainIdle == mainPc = "alloc1"

M1Idle ==
    /\ mPc = "start"
    /\ mData = <<>>
    /\ hiddenBuffers = NoBuffer
    /\ memoryAddress = NoWindow
    /\ m1Log = <<>>

Init == MgrInit /\ OffIdle /\ LBIdle /\ MainIdle /\ M1Idle

Spec == Init /\ [][Next]_vars
SpecOneCopy == Init /\ [][NextOneCopy]_vars
SpecOffset == Init /\ [][NextOffset]_vars
SpecLB == Init /\ [][NextLB]_vars
SpecMain == Init /\ [][NextMain]_vars
SpecMethods == Init /\ [][NextMethods]_vars

(***************************************************************************)
(* Properties of the SecureMemoryManager.                                  *)
(***************************************************************************)

\* C1: after one or more CopyData calls followed by one ClearSecure, every
\* byte of the working memory that held caller data from any of those calls
\* (bytes [0, heldLen)) is zero.
C1_AllHeldBytesCleared ==
    (pc = "ready" /\ lastOp = "ClearSecure") =>
        \A i \in 0..(heldLen - 1) : WM(i) = 0

\* C2: a single CopyData of n bytes, for every n from 0 to the window
\* length, followed by ClearSecure leaves bytes [0, n) of the working memory
\* zero and dataLength = 0.
C2_SingleCopyCleared ==
    (lastOp = "ClearSecure" /\ copies = 1) =>
        /\ dataLength = 0
        /\ \A i \in DOMAIN lastIn : WM(i) = 0

C2_Witness ==
    /\ lastOp = "ClearSecure"
    /\ copies = 1
    /\ Len0(lastIn) = workingMemory.length
    /\ workingMemory.offset > 0
    /\ Len(passLog) = ClearPasses + 1

\* C3: round trip: after CopyData(d) with len(d) <= the window length, the
\* first len(d) bytes of the working memory are d and dataLength = len(d).
C3_RoundTrip ==
    (lastOp = "CopyData" /\ Len0(lastIn) <= workingMemory.length) =>
        /\ pc = "ready"
        /\ dataLength = Len0(lastIn)
        /\ \A i \in DOMAIN lastIn : WM(i) = lastIn[i]

C3_Witness ==
    /\ lastOp = "CopyData"
    /\ Len0(lastIn) = workingMemory.length
    /\ workingMemory.offset > 0
    /\ dataLength = workingMemory.length

\* C4: of two consecutive ClearSecure calls with no CopyData in between, the
\* second makes no overwrite pass and changes no byte of the buffer and no
\* field of the manager.
C4_SecondClearNoOp ==
    [][(lastOp = "ClearSecure" /\ lastOp' = "ClearSecure" /\ ops' = ops + 1) =>
          /\ passLog' = <<>>
          /\ baseBuffer' = baseBuffer
          /\ workingMemory' = workingMemory
          /\ bufferSize' = bufferSize
          /\ dataLength' = dataLength]_vars

C4_Witness ==
    /\ lastOp = "ClearSecure"
    /\ ops = 3
    /\ copies = 1
    /\ Len0(lastIn) > 0
    /\ passLog = <<>>
    /\ dataLength = 0

\* C5: isolation: in every state the bytes of baseBuffer outside the working
\* window, which is baseBuffer[offset:], have the value make gave them (0).
C5_Isolation ==
    /\ DOMAIN baseBuffer = 0..(bufferSize - 1)
    /\ workingMemory.offset + workingMemory.length = bufferSize
    /\ \A i \in 0..(workingMemory.offset - 1) : baseBuffer[i] = 0

C5_Witness ==
    /\ workingMemory.offset > 0
    /\ lastOp = "ClearSecure"
    /\ copies = 2
    /\ Len(passLog) = ClearPasses + 1
    /\ WM(0) = 0
    /\ WM(workingMemory.length - 1) # 0

\* C6: ClearSecure overwrites exactly the first dataLength bytes of the
\* window, with the random passes first and the zero pass last; the window
\* bytes from dataLength on and the bytes outside the window are unchanged.
C6_ClearExactRange ==
    [][(lastOp' = "ClearSecure" /\ ops' = ops + 1) =>
          /\ DOMAIN baseBuffer' = DOMAIN baseBuffer
          /\ \A i \in DOMAIN baseBuffer :
                (i < workingMemory.offset \/ i >= workingMemory.offset + dataLength)
                    => baseBuffer'[i] = baseBuffer[i]
          /\ dataLength > 0 =>
                /\ Len(passLog') = ClearPasses + 1
                /\ \A k \in 1..ClearPasses : passLog'[k] = PassRecord("random", dataLength)
                /\ passLog'[ClearPasses + 1] = PassRecord("zero", dataLength)
                /\ \A i \in 0..(dataLength - 1) : baseBuffer'[workingMemory.offset + i] = 0
       ]_vars

C6_Witness ==
    /\ lastOp = "ClearSecure"
    /\ Len(passLog) = ClearPasses + 1
    /\ workingMemory.offset > 0
    /\ passLog[1].n > 0
    /\ passLog[1].n < workingMemory.length
    /\ WM(passLog[1].n - 1) = 0
    /\ WM(passLog[1].n) # 0

\* C8: CopyData with data longer than the working window reports a capacity
\* error to the caller and does not fault.
C8_CapacityErrorReported ==
    (lastOp = "CopyData" /\ Len0(lastIn) > workingMemory.length) =>
        /\ pc = "ready"
        /\ lastErr = "CapacityError"

\* C9: for every capacity c > 0, NewSecureMemoryManager(c) followed by
\* ClearSecure, with no CopyData, does not fault, makes no clearing pass and
\* leaves dataLength = 0.
C9_OpenCloseAnyCapacity ==
    (copies = 0 /\ lastOp # "none") =>
        /\ pc # "panic"
        /\ dataLength = 0
        /\ passLog = <<>>

(***************************************************************************)
(* Properties of the window placement.                                     *)
(***************************************************************************)

\* C7: for every buffer of at least 256 bytes and every draw, the window
\* leaves at least 64 unused bytes of the buffer before its first byte and
\* after its last byte.
C7_SlackBothSides ==
    (offPc = "done" /\ offIn.len >= SlackThreshold) =>
        /\ offOut.offset >= Margin
        /\ offIn.len - (offOut.offset + offOut.length) >= Margin

(***************************************************************************)
(* Properties of the lockedBuffer.                                         *)
(***************************************************************************)

\* C10: copyTo between two buffers of different sizes reports a size
\* mismatch error to its caller.
C10_SizeMismatchReported ==
    (lbLastOp = "copyTo" /\ bufs[lbLastIn[1]].size # bufs[lbLastIn[2]].size) =>
        lbLastErr = "SizeMismatchError"

\* C11: copyTo is all-or-nothing: between mapped buffers of equal size the
\* destination becomes a copy of the source and nothing else changes; when
\* the sizes differ no byte of any buffer changes and nothing faults.
C11_CopyAllOrNothing ==
    [][(lbLastOp' = "copyTo" /\ lbOps' = lbOps + 1) =>
          LET src == lbLastIn'[1]
              dest == lbLastIn'[2]
          IN  IF bufs[src].size # bufs[dest].size
              THEN region' = region /\ lbPc' = "run"
              ELSE (region[src].mapped /\ region[dest].mapped) =>
                      /\ lbPc' = "run"
                      /\ region'[dest].bytes = region[src].bytes
                      /\ region'[src].bytes = region[src].bytes
                      /\ \A b \in Bufs \ {dest} : region'[b] = region[b]
                      /\ region'[dest].mapped /\ region'[dest].pinned = region[dest].pinned
       ]_vars

C11_Witness ==
    /\ lbLastOp = "copyTo"
    /\ lbPc = "run"
    /\ lbLastIn[1] # lbLastIn[2]
    /\ bufs[lbLastIn[1]].size = bufs[lbLastIn[2]].size
    /\ bufs[lbLastIn[1]].size >= 2
    /\ Dirty(region[lbLastIn[2]].bytes)
    /\ region[lbLastIn[2]].bytes = region[lbLastIn[1]].bytes

\* C12: close zeroes the region before it unpins and unmaps it: whenever
\* Munlock or Munmap is called on a region, the region holds no non-zero
\* byte.
C12_ZeroBeforeRelease ==
    \A k \in DOMAIN lbEvents :
        lbEvents[k].call \in {"Munlock", "Munmap"} => ~lbEvents[k].dirty

\* C13: close is idempotent: a second close of a released buffer does not
\* touch the released mapping and does not fault.
C13_CloseIdempotent ==
    lbLastOp = "close" => lbPc = "run"

\* C14: newLockedBuffer returns nil exactly when size <= 0, Mmap fails or
\* Mlock fails; after a failed allocation the handle has no buffer and no
\* region stays mapped or pinned for it, the mapping of a failed Mlock
\* having been unmapped.
C14_FailedAllocationLeavesNothing ==
    lbLastOp = "newLockedBuffer" =>
        LET b == lbLastIn[1]
            size == lbLastIn[2]
            mmapOk == lbLastIn[3]
            mlockOk == lbLastIn[4]
        IN  /\ (lbLastErr = "nil") <=> (size <= 0 \/ ~mmapOk \/ ~mlockOk)
            /\ lbLastErr = "nil" =>
                  /\ ~bufs[b].alloc
                  /\ ~region[b].mapped
                  /\ ~region[b].pinned
                  /\ (Len(lbEvents) > 1 => lbEvents[Len(lbEvents)].call = "Munmap")
            /\ lbLastErr # "nil" =>
                  /\ bufs[b] = [alloc |-> TRUE, size |-> size, locked |-> TRUE]
                  /\ region[b].mapped /\ region[b].pinned

C14_Witness ==
    /\ lbLastOp = "newLockedBuffer"
    /\ lbLastErr = "nil"
    /\ lbLastIn[2] > 0
    /\ lbLastIn[3]
    /\ ~lbLastIn[4]
    /\ Len(lbEvents) = 3
    /\ \E b \in Bufs : region[b].mapped

\* C15: when the random source fails during writeRandom the error is
\* returned and the region has been zeroed.
C15_ZeroedOnRandomFailure ==
    (lbLastOp = "writeRandom" /\ lbLastErr = "RandomSourceError") =>
        ~Dirty(region[lbLastIn[1]].bytes)

\* C16: for every capacity of at least 256 the offset returned by
\* createMemoryAddressingWithRandomOffsetStruct depends on the draw: some
\* other draw gives an offset different from the one returned.
C16_OffsetVaries ==
    (offPc = "done" /\ offIn.len >= SlackThreshold) =>
        \E b0 \in OffsetHigh, b1 \in 0..(ByteRange - 1) :
            createMemoryAddressingWithRandomOffsetStruct(offIn.len, b0, b1).offset
                # offOut.offset

\* C18: for every buffer length and every 2-byte draw the window lies inside
\* the buffer: below 256 it is the whole buffer at offset 0; from 256 on the
\* offset is between 64 and length - 192; so the slice expression
\* buffer[offset:] never faults.
C18_WindowInsideBuffer ==
    offPc = "done" =>
        /\ offIn.len < SlackThreshold =>
              offOut.offset = 0 /\ offOut.length = offIn.len
        /\ offIn.len >= SlackThreshold =>
              /\ Margin <= offOut.offset
              /\ offOut.offset <= offIn.len - (WindowReserve + Margin)
        /\ 0 <= offOut.offset
        /\ offOut.offset <= offIn.len
        /\ offOut.offset + offOut.length <= offIn.len

C18_Witness ==
    /\ offPc = "done"
    /\ offIn.len >= SlackThreshold
    /\ (offIn.b0 * ByteRange + offIn.b1) % (offIn.len - WindowReserve)
          > offIn.len - (WindowReserve + Margin)
    /\ offOut.offset = offIn.len - (WindowReserve + Margin)
    /\ offOut.offset > Margin

\* C19: in every execution of main, when the process has ended every buffer
\* that was allocated has been closed (zeroed and released), and no buffer
\* was accessed after its close.
C19_EveryBufferClosedAtEnd ==
    /\ mainPc \in {"exit", "fatal"} =>
          \A b \in Bufs : bufs[b].alloc => ~region[b].mapped /\ ~region[b].pinned
    /\ lbPc = "run"

\* C17: run on the same data, method1 and method2 both end with every byte
\* that held the copied data equal to zero; method1 has made two clearing
\* operations and method2 one.
C17_SameProtectionOneClear ==
    mPc = "done" =>
        /\ \A i \in DOMAIN mData :
              /\ hiddenBuffers[memoryAddress.offset + i] = 0
              /\ WM(i) = 0
        /\ ClearingOps(m1Log) = 2
        /\ ClearingOps(passLog) = 1

C17_Witness ==
    /\ mPc = "done"
    /\ pc = "ready"
    /\ Len0(mData) > 1
    /\ lastIn = mData
    /\ memoryAddress.offset > 0
    /\ workingMemory.offset > Margin

====
